---- MODULE Spec2Model ----
(***************************************************************************)
(* mu-docker-compose-handler: the provisioning workflow of                 *)
(* mudrchandler/main.py.  Each incoming HTTP request is one coroutine on   *)
(* the asyncio loop; every `await` on the graph store, on the Stack's      *)
(* lazy fields or on the git subprocess is a suspension point, so one      *)
(* action of this model is the code between two awaits.                    *)
(***************************************************************************)
EXTENDS Integers, Sequences, FiniteSets, TLC

(* ------------------------------ bounds --------------------------------- *)
\* Stacks present in the graph (nodes carrying a mu:uuid).
NumStacks == 1
\* Requests served in one behaviour; all of them may be in flight at once.
MaxRuns == 2
\* Longest list stack_inserted is applied to on its own.
MaxLen == 3
\* Longest `inserts` list of a delta event sent to the handler.
MaxEventLen == 2

(* --------------------------- program constants ------------------------- *)
HTTP_OK == 200
HTTP_BAD_REQUEST == 400
HTTP_INTERNAL_SERVER_ERROR == 500

(* ------------------------------ vocabulary ----------------------------- *)
\* Stack identifiers of the graph, and one identifier no graph node carries.
StackIds == 1..NumStacks
GhostId == NumStacks + 1
Uuids == StackIds \cup {GhostId}

\* One coroutine per request, numbered in the order of arrival.
Invs == 1..MaxRuns

RDF_TYPE == "http://www.w3.org/1999/02/22-rdf-syntax-ns#type"
DOAP_STACK == "http://usefulinc.com/ns/doap#Stack"
OTHER_PREDICATE == "http://purl.org/dc/terms/title"
OTHER_OBJECT == "http://xmlns.com/foaf/0.1/Document"

NoneVal == "None"
NoUri == <<>>
ComposeText == "docker-compose.yml contents"

\* A stack URI built on the resource base of the docker-composes.
StackUriOtherBase(stack_uuid) == <<"http://stack-builder.big-data-europe.eu/resources/stacks/", stack_uuid>>

\* "http://swarm-ui.big-data-europe.eu/resources/stacks/{}".format(stack_uuid)
StackUri(stack_uuid) == <<"http://swarm-ui.big-data-europe.eu/resources/stacks/", stack_uuid>>

\* "http://stack-builder.big-data-europe.eu/resources/docker-composes/{}".format(drc_uuid)
DrcUri(drc_uuid) == <<"http://stack-builder.big-data-europe.eu/resources/docker-composes/", drc_uuid>>

\* "stack_{}_drc_{}".format(stack_uuid, drc_uuid)
DrcTitle(stack_uuid, drc_uuid) == <<"stack_", stack_uuid, "_drc_", drc_uuid>>

\* "/data/{}".format(uuid)
ProjectPath(uuid) == <<"/data/", uuid>>

\* Stack nodes of the graph: the node of stack `u` is .../resources/stacks/{u}
\* and carries the triple  <node> mu:uuid u .
GraphStackNodes ==
    {<<"http://swarm-ui.big-data-europe.eu/resources/stacks/", u>> : u \in StackIds}
NodeUuid(node) == node[2]
\* Every address that can carry an edge: the stack nodes of the graph and the
\* addresses the handler derives from an identifier.
StackAddresses == GraphStackNodes \cup {StackUri(u) : u \in Uuids}

(* ------------------------------- state --------------------------------- *)
VARIABLES
    manifests,   \* DockerCompose entities of the graph
    edges,       \* swarmui:dockerComposeFile edges: stack address -> set of drc URIs
    clock,       \* source of uuid1(): the number of identifiers handed out so far
    runs,        \* requests accepted so far
    inv,         \* per coroutine slot: position and locals of the handler
    inserts,     \* ChangeFilter: the list handed to stack_inserted
    found        \* ChangeFilter: what stack_inserted returned for it

vars == <<manifests, edges, clock, runs, inv, inserts, found>>

IdleInv ==
    [pc |-> "idle", entry |-> "none", body |-> "none", relevant |-> FALSE,
     variant |-> "none", uri |-> NoUri, uuid |-> 0, cached |-> FALSE,
     lookups |-> 0, queries |-> 0, updates |-> 0, fetches |-> 0,
     hasDrc |-> "unknown", path |-> NoUri, proc |-> "none", cmd |-> "unset",
     docker_compose |-> NoneVal, drc_uri |-> NoUri,
     status |-> 0, kind |-> "none"]

(* ----------------------------- ChangeFilter ---------------------------- *)
Subjects == StackAddresses \cup {<<"http://example.org/resources/other/", 0>>}
Triples ==
    [s : Subjects, p : {RDF_TYPE, OTHER_PREDICATE}, o : {DOAP_STACK, OTHER_OBJECT}]

RECURSIVE SeqsUpTo(_, _)
SeqsUpTo(S, n) ==
    IF n = 0 THEN {<<>>}
    ELSE LET shorter == SeqsUpTo(S, n - 1)
         IN  shorter \cup {Append(q, x) : q \in {r \in shorter : Len(r) = n - 1}, x \in S}

InsertLists == SeqsUpTo(Triples, MaxLen)

\* The delta events the handlers are driven with: the Stack insert of every
\* address and one unrelated triple, in every order.
EventTriples ==
    {[s |-> a, p |-> RDF_TYPE, o |-> DOAP_STACK] : a \in StackAddresses}
        \cup {[s |-> StackUri(GhostId), p |-> OTHER_PREDICATE, o |-> DOAP_STACK]}
EventLists == SeqsUpTo(EventTriples, MaxEventLen)

\* The list comprehension of stack_inserted: the subjects of the elements that
\* pass the filter, in input order.
RECURSIVE StackSubjects(_)
StackSubjects(ins) ==
    IF ins = <<>> THEN <<>>
    ELSE LET elem == Head(ins)
         IN  IF elem.o = DOAP_STACK /\ elem.p = RDF_TYPE
             THEN <<elem.s>> \o StackSubjects(Tail(ins))
             ELSE StackSubjects(Tail(ins))

stack_inserted_last(ins) ==
    LET stack_uri == StackSubjects(ins)
    IN  IF stack_uri # <<>> THEN stack_uri[Len(stack_uri)] ELSE NoUri

stack_inserted_any_predicate(ins) ==
    LET stack_uri == SelectSeq(ins, LAMBDA elem : elem.o = DOAP_STACK)
    IN  IF stack_uri # <<>> THEN stack_uri[1].s ELSE NoUri

\* return stack_uri[0] if stack_uri else None
stack_inserted(ins) ==
    LET stack_uri == StackSubjects(ins)
    IN  IF stack_uri # <<>> THEN stack_uri[1] ELSE NoUri


\* The filter of the comprehension on its own, for stating what a relevant
\* insert is.
Qualifies(elem) == elem.p = RDF_TYPE /\ elem.o = DOAP_STACK

(* ------------------------------ StackRef ------------------------------- *)
\* UUIDStack(data): identifier, location and branch come with the payload.
UUIDStack(r, uuid) ==
    [r EXCEPT !.variant = "uuid", !.uuid = uuid, !.cached = TRUE]

\* URIStack({'app': self, 'uri': stack_uri}): only the node address is known.
URIStack(r, stack_uri) ==
    [r EXCEPT !.variant = "uri", !.uri = stack_uri, !.cached = FALSE]

NeedsLookupAlways(r) == r.variant = "uri"

\* A field access has to go to the graph only while the fields are not cached.
NeedsLookup(r) == r.variant = "uri" /\ ~r.cached

\* The lookup finds the node and its mu:uuid, or nothing.
LookupFinds(r) == r.uri \in GraphStackNodes

\* `await stack.uuid` / `await stack.location` / `stack.branch`: one lookup
\* fills all three fields, later accesses read the cache.
Access(r) ==
    IF NeedsLookup(r)
    THEN [r EXCEPT !.lookups = @ + 1, !.cached = TRUE, !.uuid = NodeUuid(r.uri)]
    ELSE r

(* ------------------------------ responses ------------------------------ *)
Respond(r, status, kind) == [r EXCEPT !.pc = "done", !.status = status, !.kind = kind]

\* raise web.HTTPBadRequest(body="invalid json")
BadRequest(r) == Respond(r, HTTP_BAD_REQUEST, "invalid_json")

\* An exception no handler catches: aiohttp answers 500 Internal Server Error.
Unhandled(r) == Respond(r, HTTP_INTERNAL_SERVER_ERROR, "fault")

\* web.Response(body=json.dumps({"data": {"attributes": {"status": 200, ...
Created(r) == Respond(r, HTTP_OK, "success")

\* web.Response(text="whatever")
Whatever(r) == Respond(r, HTTP_OK, "ack")

\* handle_fetch_drc: except AttributeError: raise web.HTTPInternalServerError(...)
FetchConflict(r) == Respond(r, HTTP_INTERNAL_SERVER_ERROR, "conflict")

DeltaConflictOk(r) == Respond(r, HTTP_OK, "conflict")

\* handle_delta_update: except AttributeError: raise web.HTTPInternalServerError(...)
DeltaConflict(r) == Respond(r, HTTP_INTERNAL_SERVER_ERROR, "conflict")

\* Both handlers catch AttributeError around create_drc_db / update_stack_drc.
AttributeErrorCaught(r) ==
    IF r.entry = "direct" THEN FetchConflict(r) ELSE DeltaConflict(r)

(* ------------------------------ graph store ---------------------------- *)
AskNever(uuid) == FALSE

\* ASK { ?s mu:uuid uuid . ?s swarmui:dockerComposeFile ?x . }
Ask(uuid) ==
    \E s \in GraphStackNodes : NodeUuid(s) = uuid /\ edges[s] # {}

escape_string_lenient(value) == FALSE

\* escape_string(value) calls value.replace: None has no such attribute.
escape_string_raises(value) == value = NoneVal

\* An INSERT DATA that writes the entity under the stacks resource base
\* instead of the URI create_drc_db returns.
DockerComposeUnderStacks(uri, drc_uuid, drc, title) ==
    [uri |-> StackUri(drc_uuid), uuid |-> drc_uuid, text |-> drc, title |-> title]

\* INSERT DATA { <uri> a DockerCompose ; mu:uuid ; stackbuilder:text ; dct:title }
DockerCompose(uri, drc_uuid, drc, title) ==
    [uri |-> uri, uuid |-> drc_uuid, text |-> drc, title |-> title]

RelinkKeepingOld(e, stack_uri, drc_uri) ==
    [e EXCEPT ![stack_uri] = @ \cup {drc_uri}]

\* DELETE { <stack_uri> dockerComposeFile ?s } WHERE { OPTIONAL {...} } ;
\* INSERT DATA { <stack_uri> dockerComposeFile <drc_uri> }  -- one update request.
Relink(e, stack_uri, drc_uri) ==
    [e EXCEPT ![stack_uri] = {drc_uri}]


(* ------------------------------- Init ---------------------------------- *)
Init ==
    /\ manifests = {}
    /\ edges = [a \in StackAddresses |-> {}]
    /\ clock = 0
    /\ runs = 0
    /\ inv = [i \in Invs |-> IdleInv]
    /\ inserts = <<>>
    /\ found = [applied |-> FALSE, value |-> NoUri]

(* --------------------------- request handlers -------------------------- *)
Bodies == {"invalid_json", "bad_shape", "valid"}

\* Coroutine i is created by the i-th request.
Arrives(i) == inv[i].pc = "idle" /\ runs = i - 1

Accepted(entry, body) == [IdleInv EXCEPT !.entry = entry, !.body = body]

\* POST /createdrc, up to the first await inside docker_compose.
\*   invalid_json: request.json() raises, answered 400;
\*   bad_shape:    a JSON value that is no object, data.update raises
\*                 AttributeError outside the try block;
\*   valid:        stack = UUIDStack(data); uuid = stack.uuid.
handle_fetch_drc(i, body, uuid) ==
    /\ Arrives(i)
    /\ runs' = runs + 1
    /\ LET r == Accepted("direct", body)
       IN  inv' = [inv EXCEPT ![i] =
                CASE body = "invalid_json" -> BadRequest(r)
                  [] body = "bad_shape" -> Unhandled(r)
                  [] OTHER -> [UUIDStack(r, uuid) EXCEPT !.pc = "ensure"]]
    /\ UNCHANGED <<manifests, edges, clock, inserts, found>>

\* if stack_uri:  -- None is falsy, a URI is not.
Truthy(stack_uri) == stack_uri # NoUri

\* POST /update, up to the first await inside docker_compose.
\*   invalid_json: request.json() raises, answered 400;
\*   bad_shape:    data['delta'][0]['inserts'] raises KeyError, uncaught;
\*   valid:        stack_uri = self.stack_inserted(inserts); if stack_uri: ...
\*                 else return web.Response(text="whatever").
handle_delta_update(i, body, ins) ==
    /\ Arrives(i)
    /\ runs' = runs + 1
    /\ LET r == Accepted("delta", body)
           stack_uri == stack_inserted(ins)
       IN  inv' = [inv EXCEPT ![i] =
                CASE body = "invalid_json" -> BadRequest(r)
                  [] body = "bad_shape" -> Unhandled(r)
                  [] OTHER ->
                        LET v == [r EXCEPT !.relevant =
                                    \E k \in 1..Len(ins) : Qualifies(ins[k])]
                        IN  IF Truthy(stack_uri)
                            THEN [URIStack(v, stack_uri) EXCEPT !.pc = "uuid"]
                            ELSE Whatever(v)]
    /\ UNCHANGED <<manifests, edges, clock, inserts, found>>

(* ---------------------------- docker_compose --------------------------- *)
\* uuid = ... await stack.uuid  (URIStack): the lookup that resolves the
\* stack, or a NotFoundError that neither handler catches.
stack_uuid(i) ==
    /\ inv[i].pc = "uuid"
    /\ LET r == inv[i]
       IN  inv' = [inv EXCEPT ![i] =
                IF NeedsLookup(r) /\ ~LookupFinds(r)
                THEN Unhandled([r EXCEPT !.lookups = @ + 1])
                ELSE [Access(r) EXCEPT !.pc = "ensure"]]
    /\ UNCHANGED <<manifests, edges, clock, runs, inserts, found>>

\* run_command("git", "clone", await stack.location, "-b", stack.branch,
\* project_path) up to asyncio.create_subprocess_exec.
create_subprocess_exec(r0) ==
    LET r == Access(r0)
    IN  [r EXCEPT !.path = ProjectPath(r.uuid), !.fetches = @ + 1,
                  !.proc = "running", !.pc = "wait"]

\* if not await self.ensure_stack_has_drc(uuid): project_path = ...; clone
\* else: return None
ensure_stack_has_drc(i) ==
    /\ inv[i].pc = "ensure"
    /\ LET r == [inv[i] EXCEPT !.queries = @ + 1]
       IN  inv' = [inv EXCEPT ![i] =
                IF Ask(r.uuid)
                THEN [r EXCEPT !.hasDrc = "yes", !.docker_compose = NoneVal, !.pc = "create"]
                ELSE create_subprocess_exec([r EXCEPT !.hasDrc = "no"])]
    /\ UNCHANGED <<manifests, edges, clock, runs, inserts, found>>

\* What the clone can come to: exit status 0 with or without a
\* docker-compose.yml in the work tree, another exit status, or no exit
\* within the timeout.
Outcomes == {"exit_zero", "exit_zero_no_file", "exit_nonzero", "timeout"}

\* What process.returncode holds when run_command returns: on a timeout
\* process.terminate() is called and the returncode, still unset, is returned.
ReturnCode(outcome) ==
    CASE outcome \in {"exit_zero", "exit_zero_no_file"} -> "0"
      [] outcome = "exit_nonzero" -> "128"
      [] OTHER -> NoneVal

\* A run_command that, after process.terminate(), waits for the process to
\* exit before it returns.
run_command_waiting(i, outcome) ==
    /\ inv[i].pc = "wait"
    /\ outcome = "timeout" => inv[i].proc = "running"
    /\ LET cmd == ReturnCode(outcome)
           r == [inv[i] EXCEPT !.cmd = cmd,
                    !.proc = IF outcome = "timeout" THEN "terminating" ELSE "exited"]
       IN  inv' = [inv EXCEPT ![i] =
                IF outcome = "timeout"
                THEN r
                ELSE IF cmd = "0"
                     THEN IF outcome = "exit_zero"
                          THEN [r EXCEPT !.docker_compose = ComposeText, !.pc = "create"]
                          ELSE Unhandled(r)
                     ELSE [r EXCEPT !.docker_compose = NoneVal, !.pc = "create"]]
    /\ UNCHANGED <<manifests, edges, clock, runs, inserts, found>>

\* cmd = await self.run_command(...)
\* if cmd == 0:
\*     async with open(path.join(project_path, 'docker-compose.yml')) as f:
\*         return await f.read()
\* A missing file raises FileNotFoundError, which neither handler catches;
\* any other cmd falls off the end of docker_compose, which returns None.
run_command(i, outcome) ==
    /\ inv[i].pc = "wait"
    /\ LET cmd == ReturnCode(outcome)
           r == [inv[i] EXCEPT !.cmd = cmd,
                    !.proc = IF outcome = "timeout" THEN "terminating" ELSE "exited"]
       IN  inv' = [inv EXCEPT ![i] =
                IF cmd = "0"
                THEN IF outcome = "exit_zero"
                     THEN [r EXCEPT !.docker_compose = ComposeText, !.pc = "create"]
                     ELSE Unhandled(r)
                ELSE [r EXCEPT !.docker_compose = NoneVal, !.pc = "create"]]
    /\ UNCHANGED <<manifests, edges, clock, runs, inserts, found>>

(* ------------------------ create_drc_db / relink ----------------------- *)
\* A generator that hands out its first identifier twice.
uuid1_repeating == IF clock = 0 THEN clock + 1 ELSE clock

\* uuid1().hex: an identifier no earlier call has returned.
uuid1 == clock + 1

\* drc_uuid = uuid1().hex; stack_uuid = ...; uri = ...; the arguments of
\* sparql.update are evaluated first, and escape_string(drc) raises
\* AttributeError for drc = None before any update is sent.
create_drc_db(i) ==
    /\ inv[i].pc = "create"
    /\ clock' = clock + 1
    /\ LET r == Access(inv[i])
           drc_uuid == uuid1
           uri == DrcUri(drc_uuid)
       IN  IF escape_string_raises(r.docker_compose)
           THEN /\ inv' = [inv EXCEPT ![i] = AttributeErrorCaught(r)]
                /\ UNCHANGED manifests
           ELSE /\ manifests' = manifests \cup
                        {DockerCompose(uri, drc_uuid, r.docker_compose,
                                       DrcTitle(r.uuid, drc_uuid))}
                /\ inv' = [inv EXCEPT ![i] =
                        [r EXCEPT !.updates = @ + 1, !.drc_uri = uri, !.pc = "relink"]]
    /\ UNCHANGED <<edges, runs, inserts, found>>

\* await self.update_stack_drc(drc_uri, stack); return web.Response(...)
update_stack_drc(i) ==
    /\ inv[i].pc = "relink"
    /\ LET r == Access(inv[i])
           stack_uri == StackUri(r.uuid)
       IN  /\ edges' = Relink(edges, stack_uri, r.drc_uri)
           /\ inv' = [inv EXCEPT ![i] = Created([r EXCEPT !.updates = @ + 1])]
    /\ UNCHANGED <<manifests, clock, runs, inserts, found>>

(* --------------------------- specifications ---------------------------- *)
Step(i) ==
    \/ stack_uuid(i)
    \/ ensure_stack_has_drc(i)
    \/ \E outcome \in Outcomes : run_command(i, outcome)
    \/ create_drc_db(i)
    \/ update_stack_drc(i)

Next ==
    \/ \E i \in Invs, body \in Bodies, uuid \in StackIds : handle_fetch_drc(i, body, uuid)
    \/ \E i \in Invs, body \in Bodies, ins \in EventLists : handle_delta_update(i, body, ins)
    \/ \E i \in Invs : Step(i)

\* Requests of both kinds, interleaved at every await.
Spec == Init /\ [][Next]_vars

\* No coroutine is in flight.
Quiescent == \A j \in Invs : inv[j].pc \in {"idle", "done"}

SeqNext ==
    \/ \E i \in Invs, body \in Bodies, uuid \in StackIds :
            Quiescent /\ handle_fetch_drc(i, body, uuid)
    \/ \E i \in Invs, body \in Bodies, ins \in EventLists :
            Quiescent /\ handle_delta_update(i, body, ins)
    \/ \E i \in Invs : Step(i)

\* Requests served one after the other: a request is accepted only when the
\* previous one has been answered.
SeqSpec == Init /\ [][SeqNext]_vars

\* What the event loop guarantees: a coroutine whose await has an answer is
\* resumed, the graph store answers, and the timer of asyncio.wait_for fires
\* when the clone has not exited.  Nothing makes the clone itself exit.
Fairness ==
    \A i \in Invs :
        /\ WF_vars(stack_uuid(i))
        /\ WF_vars(ensure_stack_has_drc(i))
        /\ WF_vars(run_command(i, "timeout"))
        /\ WF_vars(create_drc_db(i))
        /\ WF_vars(update_stack_drc(i))

LiveSpec == Init /\ [][Next]_vars /\ Fairness

\* stack_inserted applied to one list of inserts.
FilterInit ==
    /\ manifests = {}
    /\ edges = [a \in StackAddresses |-> {}]
    /\ clock = 0
    /\ runs = 0
    /\ inv = [i \in Invs |-> IdleInv]
    /\ inserts \in InsertLists
    /\ found = [applied |-> FALSE, value |-> NoUri]

ApplyFilter ==
    /\ ~found.applied
    /\ found' = [applied |-> TRUE, value |-> stack_inserted(inserts)]
    /\ UNCHANGED <<manifests, edges, clock, runs, inv, inserts>>

FilterSpec == FilterInit /\ [][ApplyFilter]_vars


(* ======================================================================= *)
(* Properties                                                              *)
(* ======================================================================= *)
Done(i) == inv[i].pc = "done"
\* The workflow of coroutine i ran its link check on stack u.
CheckedOn(i, u) == inv[i].queries = 1 /\ inv[i].uuid = u
FetchFailed(i) == inv[i].fetches = 1 /\ inv[i].cmd \in {"128", NoneVal}
\* The manifest entities created for stack u (their title names the stack).
ManifestsOf(u) == {m \in manifests : m.title[2] = u}
\* Everything the graph holds was written by a coroutine whose own link check
\* found no edge and whose own clone exited with status 0.
GraphAccounted ==
    /\ \A m \in manifests :
          \E j \in Invs : /\ inv[j].drc_uri = m.uri
                          /\ inv[j].hasDrc = "no" /\ inv[j].cmd = "0"
    /\ \A a \in StackAddresses : \A d \in edges[a] :
          \E j \in Invs : /\ inv[j].drc_uri = d /\ StackUri(inv[j].uuid) = a
                          /\ inv[j].hasDrc = "no" /\ inv[j].cmd = "0"
    /\ Cardinality(manifests) = Cardinality({j \in Invs : inv[j].updates >= 1})

\* C1 (under SeqSpec, requests served one after the other): for every stack
\* of the graph, which starts without an edge, the first workflow whose clone
\* delivers the file answers success; every workflow that runs on the stack
\* after a successful one finds the edge and answers conflict; and from the
\* first success on the graph holds exactly one manifest created for the
\* stack and exactly one edge of the stack, pointing to that manifest.
C1_SequentialIdempotency ==
    \A u \in StackIds :
        /\ \A i \in Invs :
              (Done(i) /\ CheckedOn(i, u)
                  /\ ~(\E h \in 1..(i - 1) : CheckedOn(h, u) /\ inv[h].kind = "success"))
              => /\ inv[i].hasDrc = "no"
                 /\ inv[i].docker_compose = ComposeText => inv[i].kind = "success"
        /\ \A i, j \in Invs :
              (i < j /\ Done(i) /\ Done(j) /\ CheckedOn(i, u) /\ CheckedOn(j, u)
                  /\ inv[i].kind = "success")
              => inv[j].hasDrc = "yes" /\ inv[j].kind = "conflict"
        /\ (\E i \in Invs : Done(i) /\ CheckedOn(i, u) /\ inv[i].kind = "success")
              => /\ Cardinality(ManifestsOf(u)) = 1
                 /\ Cardinality(edges[StackUri(u)]) = 1
                 /\ edges[StackUri(u)] = {m.uri : m \in ManifestsOf(u)}
        /\ Cardinality(ManifestsOf(u)) <= 1

\* Two requests for the same stack, one after the other: success, then conflict.
C1_Witness ==
    \E u \in StackIds : \E i, j \in Invs :
        /\ i < j /\ Done(i) /\ Done(j) /\ CheckedOn(i, u) /\ CheckedOn(j, u)
        /\ inv[i].kind = "success" /\ inv[j].kind = "conflict"
        /\ Cardinality(ManifestsOf(u)) = 1 /\ Cardinality(edges[StackUri(u)]) = 1

\* C2: in every reachable state, whatever the interleaving of direct and delta
\* requests, every stack address has at most one dockerComposeFile edge.
C2_AtMostOneEdge ==
    \A a \in StackAddresses : Cardinality(edges[a]) <= 1

\* Two coroutines have both relinked the same stack.
C2_Witness ==
    \E i, j \in Invs :
        /\ i # j /\ inv[i].uuid = inv[j].uuid
        /\ inv[i].updates = 2 /\ inv[j].updates = 2
        /\ Cardinality(edges[StackUri(inv[i].uuid)]) = 1

\* C3: a coroutine whose clone exited non-zero or timed out sends no update:
\* it inserts no manifest and touches no edge, and nothing in the graph stems
\* from a coroutine whose clone did not exit with status 0.
C3_FetchFailureWritesNothing ==
    /\ \A i \in Invs :
          FetchFailed(i) => inv[i].updates = 0 /\ inv[i].drc_uri = NoUri
                            /\ inv[i].pc \in {"create", "done"}
    /\ GraphAccounted

\* One clone timed out, another exited non-zero, both requests are answered.
C3_Witness ==
    \E i, j \in Invs :
        /\ Done(i) /\ Done(j) /\ inv[i].fetches = 1 /\ inv[j].fetches = 1
        /\ inv[i].cmd = NoneVal /\ inv[j].cmd = "128"
        /\ manifests = {}

\* C4: the conflict response is given only when the link check found an edge,
\* and a failed clone is answered neither with the conflict response nor with
\* success.
C4_OutcomesDistinct ==
    \A i \in Invs :
        Done(i) =>
            /\ inv[i].kind = "conflict" => inv[i].hasDrc = "yes"
            /\ FetchFailed(i) => inv[i].kind \notin {"conflict", "success"}

\* C5: a coroutine whose link check found an edge starts no clone and sends
\* no update, is answered with the conflict response, and nothing in the
\* graph stems from it.
C5_AlreadyLinkedWritesNothing ==
    /\ \A i \in Invs :
          inv[i].hasDrc = "yes" =>
              /\ inv[i].fetches = 0 /\ inv[i].updates = 0
              /\ inv[i].proc = "none" /\ inv[i].drc_uri = NoUri
              /\ inv[i].pc \in {"create", "done"}
              /\ Done(i) => inv[i].kind = "conflict"
    /\ GraphAccounted

\* A request on an already linked stack has been answered.
C5_Witness ==
    \E i \in Invs :
        /\ Done(i) /\ inv[i].hasDrc = "yes" /\ inv[i].kind = "conflict"
        /\ edges[StackUri(inv[i].uuid)] # {}

\* The positions of the list whose triple is  ?s rdf:type doap:Stack .
QualifyingAt(ins) == {k \in 1..Len(ins) : Qualifies(ins[k])}
FirstOf(S) == CHOOSE k \in S : \A l \in S : k <= l

\* C6 (under FilterSpec): stack_inserted returns the subject of the first
\* triple, in input order, with predicate rdf:type and object Stack, none when
\* no triple qualifies, and the same for the list with its unrelated triples
\* removed.
C6_FirstQualifyingSubject ==
    found.applied =>
        /\ QualifyingAt(inserts) = {} => found.value = NoUri
        /\ QualifyingAt(inserts) # {} =>
              found.value = inserts[FirstOf(QualifyingAt(inserts))].s
        /\ found.value = stack_inserted(SelectSeq(inserts, Qualifies))

\* Two qualifying triples with different subjects: the first one is returned.
C6_Witness ==
    /\ found.applied
    /\ \E k, l \in QualifyingAt(inserts) :
          k < l /\ inserts[k].s # inserts[l].s /\ found.value = inserts[k].s
    /\ \E k \in 1..Len(inserts) : ~Qualifies(inserts[k])

\* C7: a delta event whose inserts hold no Stack insert is answered at once
\* with the plain acknowledgement, status 200, and its coroutine sends no
\* query, no update, no lookup and starts no clone.
C7_IrrelevantDeltaIsInert ==
    \A i \in Invs :
        (inv[i].entry = "delta" /\ inv[i].body = "valid" /\ ~inv[i].relevant)
        => /\ Done(i) /\ inv[i].kind = "ack" /\ inv[i].status = HTTP_OK
           /\ inv[i].queries = 0 /\ inv[i].updates = 0
           /\ inv[i].fetches = 0 /\ inv[i].lookups = 0

\* An event without a Stack insert has been acknowledged.
C7_Witness ==
    \E i \in Invs :
        /\ inv[i].entry = "delta" /\ inv[i].body = "valid" /\ ~inv[i].relevant
        /\ Done(i) /\ inv[i].kind = "ack"

\* C8 as stated: the delta entry answers with status 200 whether the outcome
\* is the success envelope, the conflict envelope of an already linked stack,
\* or the acknowledgement.
C8_DeltaAlways200 ==
    \A i \in Invs :
        (inv[i].entry = "delta" /\ Done(i)
            /\ \/ inv[i].kind \in {"success", "ack"}
               \/ inv[i].kind = "conflict" /\ inv[i].hasDrc = "yes")
        => inv[i].status = HTTP_OK

\* C8 as amended: the delta entry answers the success envelope and the
\* acknowledgement with status 200 and the conflict envelope with status 500;
\* a workflow whose link check found the edge is answered with the latter.
C8_DeltaStatusByOutcome ==
    \A i \in Invs :
        (inv[i].entry = "delta" /\ Done(i)) =>
            /\ inv[i].kind \in {"success", "ack"} => inv[i].status = HTTP_OK
            /\ inv[i].kind = "conflict" => inv[i].status = HTTP_INTERNAL_SERVER_ERROR
            /\ inv[i].hasDrc = "yes" => inv[i].kind = "conflict"
            /\ inv[i].updates = 2 => inv[i].kind = "success"

\* A delta event for an already linked stack has been answered.
C8_Witness ==
    \E i \in Invs :
        /\ inv[i].entry = "delta" /\ Done(i) /\ inv[i].hasDrc = "yes"
        /\ inv[i].kind = "conflict" /\ inv[i].status = HTTP_INTERNAL_SERVER_ERROR

\* C9: a body that is no JSON, or JSON of the wrong shape, is answered with a
\* client error (400) on either entry, without any update or clone.
C9_MalformedIsClientError ==
    \A i \in Invs :
        (Done(i) /\ inv[i].body \in {"invalid_json", "bad_shape"})
        => /\ inv[i].status = HTTP_BAD_REQUEST
           /\ inv[i].updates = 0 /\ inv[i].fetches = 0

\* C10: the coroutine of a URIStack sends at most one lookup over the whole
\* workflow: none before the first field access, exactly one from then on.
C10_AtMostOneLookup ==
    \A i \in Invs :
        inv[i].variant = "uri" =>
            /\ inv[i].lookups <= 1
            /\ inv[i].pc = "uuid" => inv[i].lookups = 0
            /\ inv[i].pc # "uuid" => inv[i].lookups = 1
            /\ inv[i].cached => inv[i].uuid = NodeUuid(inv[i].uri)

\* A delta-triggered workflow ran to the end: uuid read three times, location
\* and branch once, one lookup.
C10_Witness ==
    \E i \in Invs :
        /\ inv[i].variant = "uri" /\ Done(i) /\ inv[i].kind = "success"
        /\ inv[i].updates = 2 /\ inv[i].lookups = 1

\* Coroutine i has sent its relink for stack u after a link check that found
\* no edge.
RelinkedOn(i, u) == CheckedOn(i, u) /\ inv[i].hasDrc = "no" /\ inv[i].updates = 2
\* The step in which coroutine i sends the update of update_stack_drc.
RelinkStep(i) == inv[i].pc = "relink" /\ inv'[i].pc = "done"

\* C11: nothing excludes two workflows on the same stack from each other.
\* Whenever two of them have both passed the link check with "no edge" and
\* both relinked, each has persisted its own manifest, so the stack has at
\* least two, and the stack has a single edge, to the manifest of one of the
\* relinkers; every relink leaves the edge on the manifest of the coroutine
\* that sent it, so the edge is the one of the relink that ran last and the
\* other manifest stays unlinked.
C11_ConcurrentDoubleProvisioning ==
    /\ [](\A u \in StackIds : \A i, j \in Invs :
            (i # j /\ RelinkedOn(i, u) /\ RelinkedOn(j, u))
            => /\ inv[i].drc_uri # inv[j].drc_uri
               /\ {inv[i].drc_uri, inv[j].drc_uri} \subseteq {m.uri : m \in ManifestsOf(u)}
               /\ Cardinality(edges[StackUri(u)]) = 1
               /\ edges[StackUri(u)] \subseteq {inv[k].drc_uri : k \in {l \in Invs : RelinkedOn(l, u)}})
    /\ [][\A i \in Invs :
            RelinkStep(i) => edges'[StackUri(inv[i].uuid)] = {inv[i].drc_uri}]_vars

\* Both coroutines were past the link check before either relinked (both saw
\* "no edge"), both persisted, and the edge is on the second one's manifest
\* while the first one's manifest is linked from nowhere.
C11_Witness ==
    \E u \in StackIds : \E i, j \in Invs :
        /\ i # j /\ RelinkedOn(i, u) /\ RelinkedOn(j, u)
        /\ Cardinality(ManifestsOf(u)) = 2
        /\ edges[StackUri(u)] = {inv[j].drc_uri}
        /\ \A a \in StackAddresses : inv[i].drc_uri \notin edges[a]
        /\ inv[i].kind = "success" /\ inv[j].kind = "success"

\* C12: within one workflow the steps come in the order link check, clone,
\* manifest insert, relink: a clone is started only after the link check has
\* answered "no edge", the manifest insert is sent only after the clone has
\* exited with status 0 and the file has been read, and the relink is sent
\* only after the manifest insert, whose entity is then in the graph.
C12_StepOrder ==
    \A i \in Invs :
        /\ inv[i].pc \in {"uuid", "ensure"} =>
              inv[i].queries = 0 /\ inv[i].fetches = 0 /\ inv[i].updates = 0
        /\ inv[i].fetches >= 1 =>
              inv[i].queries = 1 /\ inv[i].hasDrc = "no"
        /\ inv[i].pc = "wait" => inv[i].proc = "running" /\ inv[i].updates = 0
        /\ inv[i].updates >= 1 =>
              /\ inv[i].fetches = 1 /\ inv[i].proc = "exited" /\ inv[i].cmd = "0"
              /\ inv[i].docker_compose = ComposeText
              /\ \E m \in manifests : m.uri = inv[i].drc_uri /\ m.text = ComposeText
        /\ inv[i].pc = "relink" => inv[i].updates = 1
        /\ inv[i].updates = 2 => Done(i) /\ inv[i].kind = "success"

\* A workflow went through all four steps.
C12_Witness ==
    \E i \in Invs :
        /\ Done(i) /\ inv[i].queries = 1 /\ inv[i].fetches = 1 /\ inv[i].updates = 2
        /\ inv[i].entry = "delta"

\* C13 (under LiveSpec): every accepted request is answered (from some point
\* on no coroutine is in flight), also when the clone never exits: when the wait times out the coroutine goes on at once,
\* with the process asked to terminate but not awaited and its returncode
\* still unset, issues no update and is answered with a failure (status 500).
C13_TimeoutTerminates ==
    /\ <>[](\A i \in Invs : inv[i].pc \in {"idle", "done"})
    /\ [](\A i \in Invs :
            /\ inv[i].proc = "terminating" =>
                  /\ inv[i].cmd = NoneVal /\ inv[i].pc \in {"create", "done"}
                  /\ inv[i].updates = 0
                  /\ Done(i) => inv[i].status = HTTP_INTERNAL_SERVER_ERROR
            /\ inv[i].pc = "wait" => inv[i].proc = "running")

\* A request whose clone timed out has been answered while the process had
\* not been seen to exit.
C13_Witness ==
    \E i \in Invs :
        /\ Done(i) /\ inv[i].proc = "terminating" /\ inv[i].cmd = NoneVal
        /\ inv[i].status = HTTP_INTERNAL_SERVER_ERROR

\* The clone of coroutine i exited with status 0 and left no docker-compose.yml.
ManifestMissing(i) ==
    inv[i].fetches = 1 /\ inv[i].cmd = "0" /\ inv[i].docker_compose = NoneVal

\* C14: a clone that exits with status 0 without a docker-compose.yml in the
\* work tree is answered with a ManifestNotFoundFailure of its own (not the
\* generic fault, not success, not the conflict), and nothing is written.
C14_MissingManifestIsTyped ==
    \A i \in Invs :
        (Done(i) /\ ManifestMissing(i))
        => /\ inv[i].kind = "manifest_not_found"
           /\ inv[i].updates = 0 /\ inv[i].drc_uri = NoUri

\* The step in which coroutine i sends the INSERT DATA of create_drc_db.
PersistStep(i) == inv[i].updates = 0 /\ inv'[i].updates = 1

\* C15: manifest entities are never changed and never removed: every step
\* keeps each entity of the graph as it is (same id, uri, text, title); the
\* set grows only in a persist step, which adds exactly one entity, the one
\* whose URI create_drc_db returns, with an id and a URI no existing entity
\* has; so no two entities of the graph share an id or a URI.
C15_ManifestsImmutable ==
    /\ [](\A m, n \in manifests : (m.uuid = n.uuid \/ m.uri = n.uri) => m = n)
    /\ [][/\ manifests \subseteq manifests'
          /\ manifests' # manifests => \E i \in Invs : PersistStep(i)
          /\ \A i \in Invs :
                PersistStep(i) =>
                    \E m \in manifests' \ manifests :
                        /\ manifests' = manifests \cup {m}
                        /\ m.uri = inv'[i].drc_uri /\ m.uri = DrcUri(m.uuid)
                        /\ m.text = inv[i].docker_compose
                        /\ \A n \in manifests : n.uuid # m.uuid /\ n.uri # m.uri]_vars

\* Two entities of the same stack exist side by side, the older one still in
\* the graph after the edge has moved on to the newer one.
C15_Witness ==
    \E m, n \in manifests :
        /\ m.uuid < n.uuid /\ m.title[2] = n.title[2]
        /\ edges[StackUri(n.title[2])] = {n.uri}

\* C16: once a stack address has a dockerComposeFile edge it has one in every
\* later state: no step takes the last edge away, a relink over an existing
\* edge puts the new edge in place of the old one in the same step, and old
\* and new edge are never there together.
C16_EdgeNeverAbsentNorDouble ==
    /\ [](\A a \in StackAddresses : Cardinality(edges[a]) <= 1)
    /\ [][\A a \in StackAddresses :
            /\ edges[a] # {} => edges'[a] # {}
            /\ (edges[a] # {} /\ edges'[a] # edges[a]) =>
                  \E i \in Invs :
                      /\ RelinkStep(i) /\ StackUri(inv[i].uuid) = a
                      /\ edges'[a] = {inv[i].drc_uri}
                      /\ edges'[a] \cap edges[a] = {}]_vars

\* An edge has been replaced: a coroutine has relinked, its manifest is no
\* longer the target, and the stack still has an edge.
C16_Witness ==
    \E i \in Invs :
        /\ inv[i].updates = 2
        /\ inv[i].drc_uri \notin edges[StackUri(inv[i].uuid)]
        /\ Cardinality(edges[StackUri(inv[i].uuid)]) = 1

\* C17: no two workflows, concurrent or successive, ever clone into the same
\* workspace path.
C17_WorkspaceNotShared ==
    \A i, j \in Invs :
        (i # j /\ inv[i].fetches = 1 /\ inv[j].fetches = 1)
        => inv[i].path # inv[j].path

\* C18: every dockerComposeFile edge points to a DockerCompose entity that is
\* in the graph, in every reachable state of every interleaving; and a
\* coroutine that is about to relink holds the URI of a persisted entity.
C18_EdgeTargetsPersisted ==
    /\ \A a \in StackAddresses : \A d \in edges[a] :
          \E m \in manifests : m.uri = d
    /\ \A i \in Invs :
          inv[i].pc = "relink" => \E m \in manifests : m.uri = inv[i].drc_uri

\* Two coroutines relinked the same stack: the edge in place and the one that
\* was replaced both pointed to persisted entities.
C18_Witness ==
    \E a \in StackAddresses : \E d \in edges[a] :
        /\ \E m \in manifests : m.uri = d
        /\ \E m \in manifests : m.uri # d
        /\ \E i \in Invs : Done(i) /\ inv[i].drc_uri = d /\ inv[i].entry = "delta"

\* The step in which the ASK of ensure_stack_has_drc is answered to coroutine j.
CheckStep(j) == inv[j].pc = "ensure" /\ inv'[j].pc # "ensure"

====
